---- MODULE Spec2Model ----
(***************************************************************************)
(* Model of custom_components/etetherm_modbus/etathermmodbus.py: the       *)
(* EtathermModbus client (facade calls, parameter cache, transaction       *)
(* executor with lock, connect-on-demand and bounded retries) running as   *)
(* cooperative asyncio tasks against one register device.                  *)
(*                                                                         *)
(* One action of the model is one run of a task from one suspension point  *)
(* (await) to the next, as the asyncio event loop schedules it.            *)
(***************************************************************************)
EXTENDS Integers, Sequences, FiniteSets, TLC

\* ------------------------------------------------------------------------
\* Bounds of the model
\* ------------------------------------------------------------------------

\* Number of zone slots the device has. The source iterates range(1, 17);
\* the model is checked with a smaller device.
NumSlots == 3

\* Number of concurrently running asyncio tasks that use the client.
NumTasks == 2

\* Total number of facade calls started in one run of concurrent tasks.
MaxCalls == 3

\* Total number of facade calls started in one run of a single caller.
MaxSeqCalls == 2

\* Number of events outside this process in one run: the link to the device
\* going down or coming back, or another actor changing a register.
MaxEnvEvents == 1

\* The same for a run with one caller: enough for the link to go down during
\* a transaction and come back before its attempts are used up.
MaxSeqEnvEvents == 2

\* ------------------------------------------------------------------------
\* Program constants
\* ------------------------------------------------------------------------

CONF_MODBUS_RETR == 10

Slots == 1..NumSlots
Tasks == 1..NumTasks
Byte == 0..255

\* ------------------------------------------------------------------------
\* Python values
\* ------------------------------------------------------------------------

None == [isNone |-> TRUE]
Some(v) == [isNone |-> FALSE, val |-> v]

\* "<timeout>" as a sequence of code points
TimeoutName == <<60, 116, 105, 109, 101, 111, 117, 116, 62>>

\* sequence slicing s[a:b] with 0-based Python indices, 0 <= a <= b
Slice(s, a, b) ==
  LET hi == IF b > Len(s) THEN Len(s) ELSE b
  IN  IF a >= hi THEN <<>> ELSE [k \in 1..(hi - a) |-> s[a + k]]

\* ------------------------------------------------------------------------
\* Bit operations on Python ints
\* ------------------------------------------------------------------------

RECURSIVE BitAnd(_, _)
\* x & y for x, y >= 0
BitAnd(x, y) ==
  IF x = 0 \/ y = 0 THEN 0
  ELSE (x % 2) * (y % 2) + 2 * BitAnd(x \div 2, y \div 2)

RECURSIVE BitOr(_, _)
\* x | y for x, y >= 0
BitOr(x, y) ==
  IF x = 0 THEN y
  ELSE IF y = 0 THEN x
  ELSE (IF x % 2 = 1 \/ y % 2 = 1 THEN 1 ELSE 0) + 2 * BitOr(x \div 2, y \div 2)

\* x & m for any integer x and a mask m = 2^k - 1 (two's complement)
MaskLow(x, m) == x % (m + 1)

\* ------------------------------------------------------------------------
\* Register map
\* ------------------------------------------------------------------------

ConfigAddr(pos) == 4352 + (pos - 1) * 16           \* 0x1100 + (pos-1)*0x10
ModeAddr_Off(pos) == 4352 + (pos - 1) * 16 + 2       \* (variant: one register lower)
ModeAddr(pos) == 4352 + (pos - 1) * 16 + 3         \* ... + 0x03
NameAddr(pos) == 4144 + (pos - 1) * 8              \* 0x1030 + (pos-1)*8
CurrentAddr == 96                                  \* 0x60
RequiredAddr == 112                                \* 0x70

\* the registers of the device the client can address
Addrs ==
  (CurrentAddr..(CurrentAddr + NumSlots - 1))
    \cup (RequiredAddr..(RequiredAddr + NumSlots - 1))
    \cup UNION {NameAddr(p)..(NameAddr(p) + 7) : p \in Slots}
    \cup UNION {ConfigAddr(p)..(ConfigAddr(p) + 8) : p \in Slots}

\* ------------------------------------------------------------------------
\* Register codec (the bit-field arithmetic of the facade methods)
\* ------------------------------------------------------------------------

\* bytes 0x80..0xFF the names of the modelled device use, with their
\* code points in code page 1250; bytes below 0x80 decode to themselves
Cp1250High ==
  (154 :> 353) @@ (157 :> 357) @@ (158 :> 382) @@ (225 :> 225) @@
  (232 :> 269) @@ (233 :> 233) @@ (236 :> 283) @@ (237 :> 237) @@
  (242 :> 328) @@ (248 :> 345) @@ (249 :> 367) @@ (253 :> 253)

\* name.decode("1250")
Decode1250(bs) ==
  [k \in 1..Len(bs) |-> IF bs[k] < 128 THEN bs[k] ELSE Cp1250High[bs[k]]]

\* name.find(b"\x00"): 0-based index of the first zero byte, -1 if none
FindNul(bs) ==
  IF \E k \in 1..Len(bs) : bs[k] = 0
    THEN (CHOOSE k \in 1..Len(bs) : bs[k] = 0 /\ \A j \in 1..(k - 1) : bs[j] # 0) - 1
    ELSE -1

\* name bytes -> name: cut at the first zero byte, decode the rest
DecodeName(bs) ==
  LET end == FindNul(bs)
  IN  Decode1250(IF end # -1 THEN Slice(bs, 0, end) ELSE bs)

DecodeUsed(b0) == BitAnd(b0, 7) # 0

\* (variant: the 6-bit field is taken as unsigned)
DecodeShift_Unsigned(b2) == BitAnd(b2, 63)
DecodeShift(b2) ==
  LET shift == BitAnd(b2, 63)
  IN  shift - (64 * (shift \div 32))

DecodeStep(b2) == (BitAnd(b2, 192) \div 64) + 1

\* the cache entry of a slot whose config read ended in error
\* (variant: the slot is recorded as used)
TimeoutEntry_Used == [used |-> TRUE, name |-> TimeoutName, shift |-> 5, step |-> 1]
TimeoutEntry == [used |-> FALSE, name |-> TimeoutName, shift |-> 5, step |-> 1]

\* the cache entry of a slot whose config read returned `params`
ParamEntry(params, name) ==
  [used |-> DecodeUsed(params[1]), name |-> name,
   shift |-> DecodeShift(params[3]), step |-> DecodeStep(params[3])]

\* one value of the mapping get_parameters returns
\* (variant: max multiplies where the code adds)
ZoneInfo_WrongMax(p) ==
  [name |-> p.name, min |-> (1 + p.shift) * p.step, max |-> (30 * p.shift) * p.step]
ZoneInfo(p) ==
  [name |-> p.name, min |-> (1 + p.shift) * p.step, max |-> (30 + p.shift) * p.step]

\* the mapping get_parameters builds from a populated cache
ZoneMap(res) == [pos \in {q \in DOMAIN res : res[q].used} |-> ZoneInfo(res[pos])]

\* the mappings the two temperature reads build
CurrentMap(data, res) ==
  [pos \in {q \in Slots : res[q].used} |->
     (data[pos] + res[pos].shift) * res[pos].step]

RequiredMap(data, res) ==
  [pos \in {q \in Slots : res[q].used} |->
     [temp |-> (BitAnd(data[pos], 31) + res[pos].shift) * res[pos].step,
      flag |-> data[pos] \div 32]]

\* (floor(temperature) // step - shift) & 0x1F
\* (variant: a 4-bit mask)
RawLevel_Mask15(temperature, position) ==
  MaskLow((temperature \div position.step) - position.shift, 15)
RawLevel(temperature, position) ==
  MaskLow((temperature \div position.step) - position.shift, 31)

\* the 5 bytes set_mode writes, from the 6 it read
\* (variant: the manual branch keeps one byte less of what was read)
ModePayload_Short(data, auto) ==
  IF auto THEN <<BitAnd(data[1], 223)>> \o <<16, 128, 16, 128>>
  ELSE <<BitOr(data[1], 32)>> \o Slice(data, 1, 4)
\* (variant: the automatic branch keeps only the low 5 bits of byte 0)
ModePayload_Mask(data, auto) ==
  IF auto THEN <<BitAnd(data[1], 31)>> \o <<16, 128, 16, 128>>
  ELSE <<BitOr(data[1], 32)>> \o Slice(data, 1, 5)
ModePayload(data, auto) ==
  IF auto THEN <<BitAnd(data[1], 223)>> \o <<16, 128, 16, 128>>
  ELSE <<BitOr(data[1], 32)>> \o Slice(data, 1, 5)

\* int.to_bytes(2, "big") for 0 <= x < 65536
ToBytes2(x) == <<x \div 256, x % 256>>

\* ------------------------------------------------------------------------
\* datetime: month, day, hour, minute of a year that is leap or not
\* ------------------------------------------------------------------------

MonthLen(m, leap) ==
  IF m = 2 THEN (IF leap THEN 29 ELSE 28)
  ELSE IF m \in {4, 6, 9, 11} THEN 30 ELSE 31

RECURSIVE DaysBefore(_, _)
DaysBefore(m, leap) ==
  IF m = 1 THEN 0 ELSE DaysBefore(m - 1, leap) + MonthLen(m - 1, leap)

YearMinutes(leap) == (IF leap THEN 366 ELSE 365) * 1440

ToMinutes(dt) ==
  ((DaysBefore(dt.month, dt.leap) + dt.day - 1) * 24 + dt.hour) * 60 + dt.minute

RECURSIVE MonthOf(_, _, _)
\* the month holding 0-based day-of-year d, searched from month m
MonthOf(d, m, leap) ==
  IF d < DaysBefore(m, leap) + MonthLen(m, leap) THEN m ELSE MonthOf(d, m + 1, leap)

\* time_in + timedelta(minutes=k), for 0 <= k less than a year; the year
\* after a rollover is taken as a common year
AddMinutes(dt, k) ==
  LET total == ToMinutes(dt) + k
      over  == total >= YearMinutes(dt.leap)
      n     == IF over THEN total - YearMinutes(dt.leap) ELSE total
      leap  == IF over THEN FALSE ELSE dt.leap
      d     == n \div 1440
      m     == MonthOf(d, 1, leap)
  IN  [month |-> m, day |-> d - DaysBefore(m, leap) + 1,
       hour |-> (n % 1440) \div 60, minute |-> n % 60, leap |-> leap]

get_toy(time_in) ==
  (time_in.minute \div 15) + (time_in.hour * 4) + (time_in.day * 32 * 4)
    + (time_in.month * 32 * 32 * 4)

\* the 5 bytes set_temporary_temperature writes
\* (variant: the end stamp is taken at now + duration)
TempPayload_NoExtraMinute(data, temp, now, duration) ==
  LET start == get_toy(AddMinutes(now, 0))
      end   == get_toy(AddMinutes(now, duration))
  IN  <<BitAnd(data[1], 192) + temp>> \o ToBytes2(start) \o ToBytes2(end)
TempPayload(data, temp, now, duration) ==
  LET start == get_toy(AddMinutes(now, 0))
      end   == get_toy(AddMinutes(now, duration + 1))
  IN  <<BitAnd(data[1], 192) + temp>> \o ToBytes2(start) \o ToBytes2(end)

\* ------------------------------------------------------------------------
\* The device and the inputs of a run
\* ------------------------------------------------------------------------

\* register contents of the device when the client is constructed:
\* slot 1 used (shift 0, step 1, name without a terminator), slot 2 unused,
\* slot 3 used with config 01 00 41 00, further slots used (shift -1, step 4)
ConfigBytes(pos) ==
  IF pos = 1 THEN <<1, 0, 0, 138, 1, 2, 3, 4, 0>>
  ELSE IF pos = 2 THEN <<0, 0, 191, 37, 16, 128, 16, 128, 0>>
  ELSE IF pos = 3 THEN <<1, 0, 65, 0, 49, 72, 49, 80, 0>>
  ELSE <<2, 0, 255, 69, 16, 128, 16, 128, 0>>

NameBytes(pos) ==
  IF pos = 1 THEN <<75, 111, 117, 112, 101, 108, 110, 97>>
  ELSE IF pos = 2 THEN <<0, 0, 0, 0, 0, 0, 0, 0>>
  ELSE IF pos = 3 THEN <<75, 117, 99, 104, 121, 242, 236, 0>>
  ELSE <<80, 111, 107, 111, 106, 0, 120, 120>>

CurrentByte(pos) == IF pos = 3 THEN 20 ELSE 20 + pos
RequiredByte(pos) ==
  IF pos = 1 THEN 227 ELSE IF pos = 2 THEN 0 ELSE IF pos = 3 THEN 69 ELSE 133

DeviceInit ==
  [a \in Addrs |->
     IF a < RequiredAddr THEN CurrentByte(a - CurrentAddr + 1)
     ELSE IF a < NameAddr(1) THEN RequiredByte(a - RequiredAddr + 1)
     ELSE IF a < ConfigAddr(1) THEN NameBytes(((a - NameAddr(1)) \div 8) + 1)[((a - NameAddr(1)) % 8) + 1]
     ELSE ConfigBytes(((a - ConfigAddr(1)) \div 16) + 1)[((a - ConfigAddr(1)) % 16) + 1]]

\* register changes an actor outside this process may make
EnvWriteSet ==
  {<<CurrentAddr + 2, 21>>, <<ConfigAddr(3) + 2, 66>>}

\* arguments of the facade calls of a run: of concurrent tasks (PosInputs)
\* and of a single caller (SeqPosInputs)
PosInputs == {3}
SeqPosInputs == {1, 3}
TempInputs == {22}
DurInputs == {120}
NowInputs == {[month |-> 3, day |-> 10, hour |-> 14, minute |-> 32, leap |-> FALSE]}

\* ------------------------------------------------------------------------
\* The transport (pymodbus client) as the client sees it
\* ------------------------------------------------------------------------

\* a result whose isError() is true carries no registers
ErrorResponse == [err |-> TRUE, registers |-> <<>>]
OkResponse(regs) == [err |-> FALSE, registers |-> regs]

\* registers address .. address + count - 1 of the device
ReadRegs(d, address, count) == [k \in 1..count |-> d[address + k - 1]]

\* the device after write_registers(address, payload)
WriteRegs(d, address, payload) ==
  [a \in DOMAIN d |->
     IF a >= address /\ a < address + Len(payload) THEN payload[a - address + 1]
     ELSE d[a]]

\* ------------------------------------------------------------------------
\* State
\* ------------------------------------------------------------------------

VARIABLES
  dev,         \* device registers: address -> byte
  link,        \* whether the transport can reach the device
  connected,   \* self._client.connected
  lockHolder,  \* the task holding self._lock, 0 when it is free
  waiters,     \* the tasks waiting for self._lock, first come first
  params,      \* self._params: None or Some(<<entry of slot 1, ...>>)
  pc,          \* per task, the await it is suspended at
  call,        \* per task, the facade call it runs
  cont,        \* per task, the place the running transaction returns to
  tx,          \* per task, the frame of its register transaction
               \* (conn0: self._client.connected as __check_connection found
               \* it; nconn: the connects the transaction has made)
  rp,          \* per task, the frame of __read_params
  loc,         \* per task, the locals of the facade method
  ncalls,      \* facade calls started so far
  callLimit,   \* facade calls the run may start
  envLimit,    \* events outside this process the run may see
  nenv,        \* events outside this process so far
  wver,        \* per slot, number of writes of this process to its mode address
               \* (loc[t].ver: its value when t's call read that address)
  txlog,       \* per task, the transactions its current call has completed
  firstZones,  \* the value the first completed get_parameters returned
               \* (loc[t].later: whether it was set when t's call started;
               \* loc[t].cached: whether the cache was populated then)
  evTx,        \* the transaction that returned in the last step, if any
  evPass,      \* the population pass that ended in the last step, if any
  evCall,      \* the facade call that returned in the last step, if any
  codec        \* the last application of the register codec on its own, if any

vars ==
  <<dev, link, connected, lockHolder, waiters, params, pc, call, cont, tx, rp, loc,
    ncalls, callLimit, envLimit, nenv, wver, txlog, firstZones, evTx, evPass, evCall,
    codec>>

NoCall == [name |-> "none", pos |-> 0, auto |-> FALSE, temperature |-> 0, duration |-> 0]
NoTx ==
  [kind |-> "none", address |-> 0, count |-> 0, payload |-> <<>>, i |-> 0,
   regs_l |-> ErrorResponse, hist |-> <<>>, conn0 |-> FALSE, nconn |-> 0]
NoRp == [pos |-> 0, res |-> <<>>, param_response |-> ErrorResponse, caller |-> "none"]
NoLoc == [data |-> <<>>, temp |-> 0, ver |-> 0, cached |-> FALSE, later |-> FALSE]
NoEv == [t |-> 0]
NoCodec == [op |-> "none"]
Unset == [set |-> FALSE]

\* ------------------------------------------------------------------------
\* The facade methods, each as the run from one await to the next:
\* [params, rp, loc] after the run, what the run ends in (`next`: a register
\* transaction to await, or the return of the facade call), the
\* population pass it completed, if any, and where __read_params took the
\* name from, if it did (`name_from`: the literal b"" or the registers of
\* name_response)
\* ------------------------------------------------------------------------

TxReq(kind, address, count, payload, k) ==
  [do |-> "tx", kind |-> kind, address |-> address, count |-> count,
   payload |-> payload, k |-> k]
RetReq(v) == [do |-> "ret", value |-> v]
St(P, R, L, next) ==
  [params |-> P, rp |-> R, loc |-> L, next |-> next, pass |-> NoEv, name_from |-> "none"]

\* get_parameters after the cache check
get_parameters_ret(P) ==
  IF P = None THEN None ELSE Some(ZoneMap(P.val))

\* the temperature reads once data and cache are there
BulkInvalid(data, P) == Len(data) # NumSlots \/ P = None

\* (variant: a short payload gives an empty mapping instead of None)
get_temperatures_ret_Empty(name, P, L) ==
  IF P = None THEN None
  ELSE IF Len(L.data) # NumSlots THEN Some(<<>>)
  ELSE IF name = "get_current_temperatures" THEN Some(CurrentMap(L.data, P.val))
  ELSE Some(RequiredMap(L.data, P.val))

get_temperatures_ret(name, P, L) ==
  IF BulkInvalid(L.data, P) THEN None
  ELSE IF name = "get_current_temperatures" THEN Some(CurrentMap(L.data, P.val))
  ELSE Some(RequiredMap(L.data, P.val))

\* set_temporary_temperature from the cache lookup to the read
set_temporary_temperature_read(c, P, L) ==
  LET position == P.val[c.pos]
      temp == RawLevel(c.temperature, position)
  IN  St(P, NoRp, [L EXCEPT !.temp = temp],
         TxReq("read", ModeAddr(c.pos), 1, <<>>, "stt_read"))

\* the caller of __read_params after it returned
AfterReadParams(caller, c, P, L) ==
  IF caller = "gp" THEN St(P, NoRp, L, RetReq(get_parameters_ret(P)))
  ELSE IF caller = "stt" THEN set_temporary_temperature_read(c, P, L)
  ELSE St(P, NoRp, L, RetReq(get_temperatures_ret(c.name, P, L)))

\* __read_params: entry
read_params_start(caller, P, L) ==
  St(P, [pos |-> 1, res |-> <<>>, param_response |-> ErrorResponse, caller |-> caller],
     L, TxReq("read", ConfigAddr(1), 4, <<>>, "rp_cfg"))

\* __read_params: res[pos] = entry, then the next round of the loop or
\* self._params = res and return
LastSlot(pos) == pos = NumSlots

read_params_next(c, P, R, L, entry) ==
  LET res == Append(R.res, entry)
  IN  IF LastSlot(R.pos)
        THEN [AfterReadParams(R.caller, c, Some(res), L) EXCEPT
                !.pass = [t |-> 1, res |-> res]]
        ELSE St(P, [R EXCEPT !.pos = R.pos + 1, !.res = res], L,
                TxReq("read", ConfigAddr(R.pos + 1), 4, <<>>, "rp_cfg"))

\* __read_params: after the config read of slot R.pos
read_params_cfg(c, resp, P, R, L) ==
  IF resp.err THEN read_params_next(c, P, R, L, TimeoutEntry)
  ELSE IF DecodeUsed(resp.registers[1])
    THEN St(P, [R EXCEPT !.param_response = resp], L,
            TxReq("read", NameAddr(R.pos), 8, <<>>, "rp_name"))
    ELSE read_params_next(c, P, R, L, ParamEntry(resp.registers, <<>>))

\* __read_params: after the name read of slot R.pos
read_params_name(c, name_response, P, R, L) ==
  LET name == IF R.param_response.err THEN <<>> ELSE name_response.registers
      st == read_params_next(c, P, R, L,
                             ParamEntry(R.param_response.registers, DecodeName(name)))
  IN  [st EXCEPT !.name_from = IF R.param_response.err THEN "empty" ELSE "registers"]

\* the run of task code that follows the return of a transaction with
\* result resp to the place k
Resume(k, c, resp, now, P, R, L, ver) ==
  CASE k = "sm_read" ->
         IF resp.err THEN St(P, R, L, RetReq(FALSE))
         ELSE St(P, R, [L EXCEPT !.ver = ver[c.pos]],
                 TxReq("write", ModeAddr(c.pos), 0, ModePayload(resp.registers, c.auto), "sm_write"))
    [] k = "stt_read" ->
         IF resp.err THEN St(P, R, L, RetReq(FALSE))
         ELSE St(P, R, [L EXCEPT !.ver = ver[c.pos]],
                 TxReq("write", ModeAddr(c.pos), 0,
                       TempPayload(resp.registers, L.temp, now, c.duration), "stt_write"))
    [] k \in {"sm_write", "stt_write"} ->
         St(P, R, L, RetReq(~resp.err))
    [] k = "bulk" ->
         LET L1 == [L EXCEPT !.data = resp.registers]
         IN  IF P = None
               THEN read_params_start(IF c.name = "get_current_temperatures" THEN "gct" ELSE "grt", P, L1)
               ELSE St(P, R, L1, RetReq(get_temperatures_ret(c.name, P, L1)))
    [] k = "rp_cfg" -> read_params_cfg(c, resp, P, R, L)
    [] k = "rp_name" -> read_params_name(c, resp, P, R, L)

\* ------------------------------------------------------------------------
\* The transaction executor and the scheduling of the tasks
\* ------------------------------------------------------------------------

\* asyncio.Lock.acquire takes the lock at once when it is free and nobody
\* waits for it; otherwise the task queues up
\* (variant: the lock is taken without looking at its state)
CanAcquire_NoCheck(lk, ws) == TRUE
CanAcquire(lk, ws) == lk = 0 /\ ws = <<>>

\* for i in range(0, CONF_MODBUS_RETR): is there a round after round i
\* (variant: one round too many)
MoreAttempts_OffByOne(i) == i + 1 <= CONF_MODBUS_RETR
MoreAttempts(i) == i + 1 < CONF_MODBUS_RETR

\* __check_connection with the lock held: the await the task reaches next
\* (variant: it connects whatever the state of the client)
AfterAcquire_AlwaysConnect(conn) == "connect"
AfterAcquire(conn) == IF conn THEN "attempt" ELSE "connect"

\* Task t, running call c, has run up to st.next with the lock in state lk
\* and the connection in state conn; log is what its call has completed.
Apply(t, c, lk, conn, st, log) ==
  /\ params' = st.params
  /\ rp' = [rp EXCEPT ![t] = st.rp]
  /\ evPass' = IF st.pass.t = 0 THEN NoEv
               ELSE [t |-> t, res |-> st.pass.res, log |-> log]
  /\ IF st.next.do = "ret"
       THEN /\ pc' = [pc EXCEPT ![t] = "idle"]
            /\ call' = [call EXCEPT ![t] = NoCall]
            /\ cont' = [cont EXCEPT ![t] = "none"]
            /\ tx' = [tx EXCEPT ![t] = NoTx]
            /\ loc' = [loc EXCEPT ![t] = NoLoc]
            /\ txlog' = [txlog EXCEPT ![t] = <<>>]
            /\ lockHolder' = lk
            /\ waiters' = waiters
            /\ evCall' = [t |-> t, call |-> c, value |-> st.next.value, log |-> log,
                          cached |-> st.loc.cached, later |-> st.loc.later]
            /\ firstZones' =
                 IF c.name = "get_parameters" /\ ~firstZones.set
                   THEN [set |-> TRUE, value |-> st.next.value]
                   ELSE firstZones
       ELSE /\ call' = [call EXCEPT ![t] = c]
            /\ cont' = [cont EXCEPT ![t] = st.next.k]
            /\ tx' = [tx EXCEPT ![t] =
                        [kind |-> st.next.kind, address |-> st.next.address,
                         count |-> st.next.count, payload |-> st.next.payload,
                         i |-> 0, regs_l |-> ErrorResponse, hist |-> <<>>,
                         conn0 |-> conn, nconn |-> 0]]
            /\ loc' = [loc EXCEPT ![t] = st.loc]
            /\ txlog' = [txlog EXCEPT ![t] = log]
            /\ evCall' = NoEv
            /\ firstZones' = firstZones
            /\ IF CanAcquire(lk, waiters)
                 THEN /\ lockHolder' = t
                      /\ waiters' = waiters
                      /\ pc' = [pc EXCEPT ![t] = AfterAcquire(conn)]
                 ELSE /\ lockHolder' = lk
                      /\ waiters' = Append(waiters, t)
                      /\ pc' = [pc EXCEPT ![t] = "lock"]

\* a facade call starts on an idle task and runs to its first await; tasks
\* are numbered in the order of their first call
StartCall(t, c, st) ==
  /\ pc[t] = "idle"
  /\ ncalls < callLimit
  /\ t <= ncalls + 1
  /\ ncalls' = ncalls + 1
  /\ evTx' = NoEv
  /\ UNCHANGED <<dev, link, connected, callLimit, envLimit, codec, nenv, wver>>
  /\ Apply(t, c, lockHolder, connected,
           [st EXCEPT !.loc.cached = params # None, !.loc.later = firstZones.set],
           <<>>)

get_parameters(t) ==
  LET c == [NoCall EXCEPT !.name = "get_parameters"]
  IN  StartCall(t, c,
        IF params = None THEN read_params_start("gp", params, NoLoc)
        ELSE St(params, NoRp, NoLoc, RetReq(get_parameters_ret(params))))

set_mode(t, pos, auto) ==
  LET c == [NoCall EXCEPT !.name = "set_mode", !.pos = pos, !.auto = auto]
  IN  StartCall(t, c,
        St(params, NoRp, NoLoc, TxReq("read", ModeAddr(pos), 6, <<>>, "sm_read")))

set_temporary_temperature(t, pos, temperature, duration) ==
  LET c == [NoCall EXCEPT !.name = "set_temporary_temperature", !.pos = pos,
                          !.temperature = temperature, !.duration = duration]
  IN  StartCall(t, c,
        IF params = None THEN read_params_start("stt", params, NoLoc)
        ELSE set_temporary_temperature_read(c, params, NoLoc))

get_current_temperatures(t) ==
  LET c == [NoCall EXCEPT !.name = "get_current_temperatures"]
  IN  StartCall(t, c,
        St(params, NoRp, NoLoc, TxReq("read", CurrentAddr, NumSlots, <<>>, "bulk")))

get_required_temperatures(t) ==
  LET c == [NoCall EXCEPT !.name = "get_required_temperatures"]
  IN  StartCall(t, c,
        St(params, NoRp, NoLoc, TxReq("read", RequiredAddr, NumSlots, <<>>, "bulk")))

\* the lock is handed to the task that waited longest
LockGranted(t) ==
  /\ pc[t] = "lock"
  /\ lockHolder = 0
  /\ waiters # <<>>
  /\ Head(waiters) = t
  /\ lockHolder' = t
  /\ waiters' = Tail(waiters)
  /\ pc' = [pc EXCEPT ![t] = AfterAcquire(connected)]
  /\ tx' = [tx EXCEPT ![t].conn0 = connected]
  /\ evTx' = NoEv /\ evPass' = NoEv /\ evCall' = NoEv
  /\ UNCHANGED <<dev, link, connected, params, call, cont, rp, loc, ncalls,
                 callLimit, envLimit, codec, nenv, wver, txlog, firstZones>>

\* __async_connect: self._client.connect() returns, true when the device
\* was reached
async_connect(t) ==
  /\ pc[t] = "connect"
  /\ connected' = link
  /\ pc' = [pc EXCEPT ![t] = "attempt"]
  /\ tx' = [tx EXCEPT ![t].nconn = tx[t].nconn + 1]
  /\ evTx' = NoEv /\ evPass' = NoEv /\ evCall' = NoEv
  /\ UNCHANGED <<dev, link, lockHolder, waiters, params, call, cont, rp, loc,
                 ncalls, callLimit, envLimit, codec, nenv, wver, txlog, firstZones>>

\* the transaction of task t returns resp, the lock is released and the
\* task runs on to its next await
\* (variant: the lock stays with the task when its transaction returns)
TxReturn_KeepLock(t, resp, hist, conn, ver) ==
  \E now \in NowInputs :
    \E st \in {Resume(cont[t], call[t], resp, now, params, rp[t], loc[t], ver)} :
        /\ evTx' = [t |-> t, kind |-> tx[t].kind, address |-> tx[t].address,
                    count |-> tx[t].count, resp |-> resp, hist |-> hist,
                    ver |-> loc[t].ver, conn0 |-> tx[t].conn0, nconn |-> tx[t].nconn,
                    name_from |-> st.name_from]
        /\ Apply(t, call[t], t, conn, st,
                 Append(txlog[t], [kind |-> tx[t].kind, address |-> tx[t].address,
                                   count |-> tx[t].count, payload |-> tx[t].payload,
                                   resp |-> resp]))
TxReturn(t, resp, hist, conn, ver) ==
  \E now \in NowInputs :
    \E st \in {Resume(cont[t], call[t], resp, now, params, rp[t], loc[t], ver)} :
        /\ evTx' = [t |-> t, kind |-> tx[t].kind, address |-> tx[t].address,
                    count |-> tx[t].count, resp |-> resp, hist |-> hist,
                    ver |-> loc[t].ver, conn0 |-> tx[t].conn0, nconn |-> tx[t].nconn,
                    name_from |-> st.name_from]
        /\ Apply(t, call[t], 0, conn, st,
                 Append(txlog[t], [kind |-> tx[t].kind, address |-> tx[t].address,
                                   count |-> tx[t].count, payload |-> tx[t].payload,
                                   resp |-> resp]))

\* one attempt of the retry loop ends: the transport call returns a result,
\* an error when the client is not connected or the device is out of reach
Attempt(t, kind) ==
  /\ pc[t] = "attempt"
  /\ tx[t].kind = kind
  /\ LET ok == link /\ connected
          wrote == ok /\ kind = "write"
      IN
      \E regs_l \in {IF ~ok THEN ErrorResponse
                      ELSE IF kind = "read"
                        THEN OkResponse(ReadRegs(dev, tx[t].address, tx[t].count))
                        ELSE OkResponse(<<>>)},
         ver \in {[p \in Slots |->
                     IF wrote /\ tx[t].address = ModeAddr(p) THEN wver[p] + 1
                     ELSE wver[p]]} :
      \E hist \in {Append(tx[t].hist, regs_l.err)} :
          /\ dev' = IF wrote THEN WriteRegs(dev, tx[t].address, tx[t].payload)
                    ELSE dev
          /\ wver' = ver
          /\ UNCHANGED <<link, connected, ncalls, callLimit, envLimit, codec, nenv>>
          /\ IF regs_l.err
               THEN /\ pc' = [pc EXCEPT ![t] = "sleep"]
                    /\ tx' = [tx EXCEPT ![t].regs_l = regs_l, ![t].hist = hist]
                    /\ evTx' = NoEv /\ evPass' = NoEv /\ evCall' = NoEv
                    /\ UNCHANGED <<lockHolder, waiters, params, call, cont, rp,
                                   loc, txlog, firstZones>>
               ELSE TxReturn(t, regs_l, hist, connected, ver)

async_read_holding_registers(t) == Attempt(t, "read")

async_write_register(t) == Attempt(t, "write")

\* asyncio.sleep(CONF_MODBUS_RETR_WAIT) is over: the next round of the
\* loop, or the return of the last result
RetryWait(t) ==
  /\ pc[t] = "sleep"
  /\ UNCHANGED <<dev, link, connected, ncalls, callLimit, envLimit, codec, nenv, wver>>
  /\ IF MoreAttempts(tx[t].i)
       THEN /\ tx' = [tx EXCEPT ![t].i = tx[t].i + 1]
            /\ pc' = [pc EXCEPT ![t] = "attempt"]
            /\ evTx' = NoEv /\ evPass' = NoEv /\ evCall' = NoEv
            /\ UNCHANGED <<lockHolder, waiters, params, call, cont, rp, loc, txlog,
                           firstZones>>
       ELSE TxReturn(t, tx[t].regs_l, tx[t].hist, connected, wver)

\* an actor outside this process changes a register of the device
EnvWrite ==
  /\ nenv < envLimit
  /\ \E w \in EnvWriteSet : dev' = [dev EXCEPT ![w[1]] = w[2]]
  /\ nenv' = nenv + 1
  /\ evTx' = NoEv /\ evPass' = NoEv /\ evCall' = NoEv
  /\ UNCHANGED <<link, connected, lockHolder, waiters, params, pc, call, cont, tx, rp,
                 loc, ncalls, callLimit, envLimit, codec, wver, txlog, firstZones>>

\* the device gets out of reach, which the client may or may not notice as
\* a closed connection, or gets back in reach
LinkChange ==
  /\ nenv < envLimit
  /\ link' = ~link
  /\ \E seen \in BOOLEAN : connected' = IF link /\ seen THEN FALSE ELSE connected
  /\ nenv' = nenv + 1
  /\ evTx' = NoEv /\ evPass' = NoEv /\ evCall' = NoEv
  /\ UNCHANGED <<dev, lockHolder, waiters, params, pc, call, cont, tx, rp, loc,
                 ncalls, callLimit, envLimit, codec, wver, txlog, firstZones>>

\* the state after EtathermModbus.__init__, with nothing called yet
Constructed ==
  /\ dev = DeviceInit
  /\ link \in BOOLEAN
  /\ connected = FALSE
  /\ lockHolder = 0
  /\ waiters = <<>>
  /\ params = None
  /\ pc = [t \in Tasks |-> "idle"]
  /\ call = [t \in Tasks |-> NoCall]
  /\ cont = [t \in Tasks |-> "none"]
  /\ tx = [t \in Tasks |-> NoTx]
  /\ rp = [t \in Tasks |-> NoRp]
  /\ loc = [t \in Tasks |-> NoLoc]
  /\ ncalls = 0
  /\ nenv = 0
  /\ wver = [p \in Slots |-> 0]
  /\ txlog = [t \in Tasks |-> <<>>]
  /\ firstZones = Unset
  /\ evTx = NoEv
  /\ evPass = NoEv
  /\ evCall = NoEv
  /\ codec = NoCodec

\* the steps of task t other than the start of a facade call
TaskStep(t) ==
  \/ async_connect(t)
  \/ async_read_holding_registers(t)
  \/ async_write_register(t)
  \/ RetryWait(t)

\* concurrent tasks sharing one client
Init == Constructed /\ callLimit = MaxCalls /\ envLimit = MaxEnvEvents

Next ==
  \/ \E t \in Tasks : get_parameters(t)
  \/ \E t \in Tasks, pos \in PosInputs, auto \in BOOLEAN : set_mode(t, pos, auto)
  \/ \E t \in Tasks, pos \in PosInputs, temp \in TempInputs, dur \in DurInputs :
       set_temporary_temperature(t, pos, temp, dur)
  \/ \E t \in Tasks : get_current_temperatures(t)
  \/ \E t \in Tasks : get_required_temperatures(t)
  \/ \E t \in Tasks : LockGranted(t)
  \/ \E t \in Tasks : TaskStep(t)
  \/ EnvWrite
  \/ LinkChange

Spec == Init /\ [][Next]_vars

\* concurrent tasks under the scheduling of the asyncio event loop: the
\* task whose connect, transport call or sleep can return is resumed, and so
\* is the first waiter of a free lock (at any time at most one task is in
\* one of these positions)
LiveInit == Constructed /\ callLimit = MaxSeqCalls /\ envLimit = MaxEnvEvents

Resumed == \E t \in Tasks : TaskStep(t) \/ LockGranted(t)

LiveSpec == LiveInit /\ [][Next]_vars /\ WF_vars(Resumed)

\* a single caller that awaits each facade call before the next
Caller == CHOOSE t \in Tasks : \A u \in Tasks : t <= u

InitSeq == Constructed /\ callLimit = MaxSeqCalls /\ envLimit = MaxSeqEnvEvents

NextSeq ==
  \/ get_parameters(Caller)
  \/ \E pos \in SeqPosInputs, auto \in BOOLEAN : set_mode(Caller, pos, auto)
  \/ \E pos \in SeqPosInputs, temp \in TempInputs, dur \in DurInputs :
       set_temporary_temperature(Caller, pos, temp, dur)
  \/ get_current_temperatures(Caller)
  \/ get_required_temperatures(Caller)
  \/ TaskStep(Caller)
  \/ EnvWrite
  \/ LinkChange

SeqSpec == InitSeq /\ [][NextSeq]_vars

\* ------------------------------------------------------------------------
\* The register codec on its own: the code of the facade methods between
\* the return of their read and their write, and the decoding of
\* __read_params, applied to inputs the device and the callers can supply
\* ------------------------------------------------------------------------

\* bytes 1..5 of the 6 that set_mode reads from a mode address
ModeTailInputs ==
  {<<16, 128, 16, 128, 0>>, <<49, 72, 49, 80, 7>>, <<255, 0, 1, 254, 255>>}

\* the last slot of a device with all 16 slots
CodecPosInputs == {16}

\* datetime.now(): mid month, end of February in a common and in a leap
\* year, and the end of the year
CodecNowInputs ==
  {[month |-> 3, day |-> 10, hour |-> 14, minute |-> 32, leap |-> FALSE],
   [month |-> 2, day |-> 28, hour |-> 23, minute |-> 59, leap |-> FALSE],
   [month |-> 2, day |-> 28, hour |-> 23, minute |-> 59, leap |-> TRUE],
   [month |-> 12, day |-> 31, hour |-> 22, minute |-> 45, leap |-> FALSE]}

CodecDurInputs == {0, 120}

\* temperatures a caller may ask for: all that some shift and step can reach
CodecTempInputs == (0 - 124)..244

\* the write counts handed to Resume in the steps below
CodecVer == [p \in 1..16 |-> 0]

\* set_mode from the return of its read of `data` to its write
Codec_set_mode ==
  /\ codec = NoCodec
  /\ \E b0 \in Byte, tail \in ModeTailInputs, auto \in BOOLEAN, pos \in CodecPosInputs :
       LET c == [NoCall EXCEPT !.name = "set_mode", !.pos = pos, !.auto = auto]
           data == <<b0>> \o tail
       IN  codec' = [op |-> "set_mode", pos |-> pos, auto |-> auto, data |-> data,
                     st |-> Resume("sm_read", c, OkResponse(data),
                                   CHOOSE now \in CodecNowInputs : TRUE,
                                   None, NoRp, NoLoc, CodecVer)]
  /\ UNCHANGED <<dev, link, connected, lockHolder, waiters, params, pc, call, cont, tx,
                 rp, loc, ncalls, callLimit, envLimit, nenv, wver, txlog, firstZones,
                 evTx, evPass, evCall>>

\* target levels set_temporary_temperature can compute (temp after & 0x1F)
LevelInputs == 0..31

\* set_temporary_temperature from the return of its read of one register
\* to its write
Codec_set_temporary_temperature ==
  /\ codec = NoCodec
  /\ \E existing \in Byte, temp \in LevelInputs, now \in CodecNowInputs,
        duration \in CodecDurInputs, pos \in CodecPosInputs :
       LET c == [NoCall EXCEPT !.name = "set_temporary_temperature", !.pos = pos,
                               !.duration = duration]
       IN  codec' = [op |-> "set_temporary_temperature", pos |-> pos,
                     existing |-> existing, temp |-> temp, now |-> now,
                     duration |-> duration,
                     st |-> Resume("stt_read", c, OkResponse(<<existing>>), now,
                                   None, NoRp, [NoLoc EXCEPT !.temp = temp], CodecVer)]
  /\ UNCHANGED <<dev, link, connected, lockHolder, waiters, params, pc, call, cont, tx,
                 rp, loc, ncalls, callLimit, envLimit, nenv, wver, txlog, firstZones,
                 evTx, evPass, evCall>>

\* config payloads of a slot: byte 0 unused or used, every byte 2
ConfigInputs == {<<b0, 0, b2, 0>> : b0 \in {0, 1, 8}, b2 \in Byte}

\* __read_params for one slot: from the return of its config read of
\* `params` to res[pos], with the name read of a used slot returning the
\* name of slot 3
Codec_read_params ==
  /\ codec = NoCodec
  /\ \E cfg \in ConfigInputs :
       LET c == [NoCall EXCEPT !.name = "get_parameters"]
           R == [pos |-> 1, res |-> <<>>, param_response |-> ErrorResponse,
                 caller |-> "gp"]
           st1 == read_params_cfg(c, OkResponse(cfg), None, R, NoLoc)
           st2 == IF st1.next.k = "rp_name"
                    THEN read_params_name(c, OkResponse(NameBytes(3)), None, st1.rp, NoLoc)
                    ELSE st1
       IN  codec' = [op |-> "read_params", params |-> cfg, entry |-> st2.rp.res[1]]
  /\ UNCHANGED <<dev, link, connected, lockHolder, waiters, params, pc, call, cont, tx,
                 rp, loc, ncalls, callLimit, envLimit, nenv, wver, txlog, firstZones,
                 evTx, evPass, evCall>>

\* set_temporary_temperature from its cache lookup to its read, for a slot
\* whose config byte 2 is b2, and get_current_temperatures decoding the level
\* it computed
Codec_level ==
  /\ codec = NoCodec
  /\ \E b2 \in Byte, temperature \in CodecTempInputs :
       LET c == [NoCall EXCEPT !.name = "set_temporary_temperature", !.pos = 1,
                               !.temperature = temperature]
           position == ParamEntry(<<1, 0, b2, 0>>, <<>>)
           res == [p \in Slots |-> position]
           st == set_temporary_temperature_read(c, Some(res), NoLoc)
           data == [p \in Slots |-> st.loc.temp]
       IN  codec' = [op |-> "level", position |-> position,
                     temperature |-> temperature, temp |-> st.loc.temp,
                     back |-> CurrentMap(data, res)[1]]
  /\ UNCHANGED <<dev, link, connected, lockHolder, waiters, params, pc, call, cont, tx,
                 rp, loc, ncalls, callLimit, envLimit, nenv, wver, txlog, firstZones,
                 evTx, evPass, evCall>>

CodecInit == Constructed /\ ~link /\ callLimit = 0 /\ envLimit = 0

CodecNext ==
  \/ Codec_set_mode
  \/ Codec_read_params
  \/ Codec_level
  \/ Codec_set_temporary_temperature

CodecSpec == CodecInit /\ [][CodecNext]_vars

\* ------------------------------------------------------------------------
\* Properties
\* ------------------------------------------------------------------------

\* task t is inside a transport operation: connect, a read or write
\* attempt, or the delay after a failed attempt
InTransport(t) == pc[t] \in {"connect", "attempt", "sleep"}

\* C1: at most one transport operation is in progress at any time, and the
\* task in it is the one that holds the client's lock.
C1_Serialized ==
  /\ \A t \in Tasks : InTransport(t) => lockHolder = t
  /\ Cardinality({t \in Tasks : InTransport(t)}) <= 1

\* C1 witness: one task is in a transport operation while another one has
\* called into a transaction and waits for the lock.
C1_Witness ==
  \E t, u \in Tasks : t # u /\ InTransport(t) /\ pc[u] = "lock"

\* C2 (as claimed): when the write of a set_mode / set_temporary_temperature
\* call goes through, no other write of this process has reached the same
\* mode address since that call's read.
C2_NoWriteBetween ==
  (evTx.t # 0 /\ evTx.kind = "write" /\ ~evTx.resp.err)
    => wver[evCall.call.pos] = evTx.ver + 1

\* the attempts so far of the running transaction of t all reported errors
AllErrors(hist) == \A k \in 1..Len(hist) : hist[k]

\* C3: a transaction makes between 1 and CONF_MODBUS_RETR (10) attempts, a
\* further attempt only after an error, none after the first result without
\* error, and returns the result of its last attempt.
C3_BoundedRetries ==
  /\ \A t \in Tasks :
       /\ pc[t] = "attempt" =>
            /\ tx[t].i \in 0..9
            /\ Len(tx[t].hist) = tx[t].i
            /\ AllErrors(tx[t].hist)
       /\ pc[t] = "sleep" =>
            /\ tx[t].i \in 0..9
            /\ Len(tx[t].hist) = tx[t].i + 1
            /\ AllErrors(tx[t].hist)
            /\ tx[t].regs_l.err
  /\ evTx.t # 0 =>
       LET n == Len(evTx.hist)
       IN  /\ n \in 1..10
           /\ \A k \in 1..(n - 1) : evTx.hist[k]
           /\ evTx.resp.err = evTx.hist[n]
           /\ evTx.resp.err => n = 10
           /\ (~evTx.resp.err /\ evTx.kind = "read") =>
                evTx.resp.registers
                  = [k \in 1..evTx.count |-> dev[evTx.address + k - 1]]

\* C3 witness: a transaction returns a result without error from its 4th
\* attempt, after 3 attempts that reported errors.
C3_Witness ==
  evTx.t # 0 /\ ~evTx.resp.err /\ Len(evTx.hist) = 4

\* C4: with the cache populated when it starts, a temperature read returns
\* the mapping decoded from the payload of the attempt that succeeded, and
\* the failure indicator exactly when all 10 attempts of its bulk read failed.
C4_BulkRetry ==
  (/\ evCall.t # 0
   /\ evCall.call.name \in {"get_current_temperatures", "get_required_temperatures"}
   /\ evCall.cached)
    => /\ evTx.t = evCall.t
       /\ Len(evCall.log) = 1
       /\ IF evTx.resp.err
            THEN evCall.value.isNone /\ Len(evTx.hist) = 10
            ELSE /\ ~evCall.value.isNone
                 /\ LET res == params.val
                        m == evCall.value.val
                    IN  /\ DOMAIN m = {p \in Slots : res[p].used}
                        /\ \A p \in DOMAIN m :
                             IF evCall.call.name = "get_current_temperatures"
                               THEN m[p] = (dev[96 + p - 1] + res[p].shift) * res[p].step
                               ELSE /\ m[p].temp = ((dev[112 + p - 1] % 32) + res[p].shift)
                                                     * res[p].step
                                    /\ m[p].flag = dev[112 + p - 1] \div 32

\* C4 witness: a temperature read on a populated cache returns a mapping
\* from the 4th attempt of its bulk read.
C4_Witness ==
  /\ evCall.t # 0
  /\ evCall.call.name = "get_current_temperatures"
  /\ evCall.cached
  /\ Len(evTx.hist) = 4
  /\ ~evCall.value.isNone

\* C5 (as claimed): a get_parameters call that starts after the first one
\* has completed issues no transport operation and returns what the first
\* one returned.
C5_SameZones ==
  (evCall.t # 0 /\ evCall.call.name = "get_parameters" /\ evCall.later)
    => /\ evCall.log = <<>>
       /\ evCall.value = firstZones.value

\* C6 (as claimed): once the cache holds zone parameters it never changes.
C6_CacheWrittenOnce == [][params # None => params' = params]_vars

\* the config reads among the transactions of a call, in the order made
ConfigReads(log) ==
  SelectSeq(log, LAMBDA e : e.kind = "read" /\ e.count = 4
                            /\ \E p \in Slots : e.address = ConfigAddr(p))

\* the result of the name read of slot p among the transactions of a call
NameRead(log, p) ==
  SelectSeq(log, LAMBDA e : e.kind = "read" /\ e.address = NameAddr(p))

\* C7 (as claimed): a get_parameters call whose population pass had the
\* config read of every slot end in error returns the failure indicator.
C7_TotalFailure ==
  (/\ evCall.t # 0
   /\ evCall.call.name = "get_parameters"
   /\ evPass.t = evCall.t
   /\ \A k \in 1..Len(ConfigReads(evCall.log)) : ConfigReads(evCall.log)[k].resp.err)
    => evCall.value.isNone

\* C8: a population pass reads the config of slots 1..NumSlots in this
\* order and leaves an entry for every slot: the timeout entry for a slot
\* whose config read ended in error, and otherwise the entry decoded from
\* the slot's own config and name payloads.
C8_PassCoversAllSlots ==
  evPass.t # 0 =>
    LET cfg == ConfigReads(evPass.log)
        res == evPass.res
    IN  /\ params = Some(res)
        /\ Len(res) = NumSlots
        /\ Len(cfg) = NumSlots
        /\ \A p \in Slots : cfg[p].address = 4352 + (p - 1) * 16
        /\ \A p \in Slots :
             IF cfg[p].resp.err
               THEN res[p] = [used |-> FALSE, name |-> TimeoutName, shift |-> 5, step |-> 1]
               ELSE LET regs == cfg[p].resp.registers
                        r == regs[3] % 64
                        nm == NameRead(evPass.log, p)
                    IN  /\ res[p].used = (regs[1] % 8 # 0)
                        /\ res[p].shift = IF r < 32 THEN r ELSE r - 64
                        /\ res[p].step = (regs[3] \div 64) + 1
                        /\ IF res[p].used
                             THEN /\ Len(nm) = 1
                                  /\ res[p].name = DecodeName(nm[1].resp.registers)
                             ELSE nm = <<>> /\ res[p].name = <<>>

\* C8 witness: a pass ends in which the config read of one slot ended in
\* error and the config read of a later slot succeeded.
C8_Witness ==
  /\ evPass.t # 0
  /\ \E p, q \in Slots :
       /\ p < q
       /\ ConfigReads(evPass.log)[p].resp.err
       /\ ~ConfigReads(evPass.log)[q].resp.err
       /\ evPass.res[q].used

\* the transactions of a set_mode / set_temporary_temperature call on the
\* mode address of its slot
ModeTx(log, kind, pos) ==
  SelectSeq(log, LAMBDA e : e.kind = kind /\ e.address = 4352 + (pos - 1) * 16 + 3)

\* C9: set_mode and set_temporary_temperature return success only if both
\* their read and their write ended without error; after a failed read they
\* return failure without any write; after a failed write they return
\* failure; every write attempt carries 5 bytes to the slot's mode address.
C9_SetOps ==
  /\ \A t \in Tasks :
       (pc[t] # "idle" /\ tx[t].kind = "write") =>
         /\ call[t].name \in {"set_mode", "set_temporary_temperature"}
         /\ Len(tx[t].payload) = 5
         /\ \A k \in 1..5 : tx[t].payload[k] \in Byte
         /\ tx[t].address = 4352 + (call[t].pos - 1) * 16 + 3
  /\ (evCall.t # 0 /\ evCall.call.name \in {"set_mode", "set_temporary_temperature"}) =>
       LET rd == ModeTx(evCall.log, "read", evCall.call.pos)
           wr == SelectSeq(evCall.log, LAMBDA e : e.kind = "write")
       IN  /\ Len(rd) = 1
           /\ Len(wr) <= 1
           /\ rd[1].resp.err => (evCall.value = FALSE /\ wr = <<>>)
           /\ (wr # <<>> /\ wr[1].resp.err) => evCall.value = FALSE
           /\ evCall.value = TRUE => (~rd[1].resp.err /\ wr # <<>> /\ ~wr[1].resp.err)

\* C9 witness: a set_mode call returns failure after its read succeeded and
\* its write ended in error.
C9_Witness ==
  /\ evCall.t # 0
  /\ evCall.call.name = "set_mode"
  /\ evCall.value = FALSE
  /\ \E k \in 1..Len(evCall.log) :
       evCall.log[k].kind = "write" /\ evCall.log[k].resp.err

\* C10: get_parameters returns exactly the slots whose cached used flag is
\* true, each with min = (1 + shift) * step and max = (30 + shift) * step;
\* slot 3 with config 01 00 41 00 gets min 4 and max 62.
C10_ZoneBounds ==
  (evCall.t # 0 /\ evCall.call.name = "get_parameters" /\ ~evCall.value.isNone) =>
    LET res == params.val
        m == evCall.value.val
    IN  /\ DOMAIN m = {p \in Slots : res[p].used}
        /\ \A p \in DOMAIN m :
             /\ m[p].name = res[p].name
             /\ m[p].min = (1 + res[p].shift) * res[p].step
             /\ m[p].max = (30 + res[p].shift) * res[p].step
        /\ \A p \in Slots : res[p].name = TimeoutName => p \notin DOMAIN m
        /\ (evPass.t # 0 /\ ~ConfigReads(evPass.log)[3].resp.err
              /\ ConfigReads(evPass.log)[3].resp.registers = <<1, 0, 65, 0>>)
             => (3 \in DOMAIN m /\ m[3].min = 4 /\ m[3].max = 62)

\* C10 witness: get_parameters returns slot 3, read with config 01 00 41 00,
\* with min 4 and max 62, and leaves out the unused slot 2.
C10_Witness ==
  /\ evCall.t # 0
  /\ evCall.call.name = "get_parameters"
  /\ ~evCall.value.isNone
  /\ evPass.t # 0
  /\ ConfigReads(evPass.log)[3].resp.registers = <<1, 0, 65, 0>>
  /\ DOMAIN evCall.value.val = {1, 3}
  /\ evCall.value.val[3].min = 4
  /\ evCall.value.val[3].max = 62

\* C11: from any 6 bytes read, set_mode goes on to write 5 bytes to the
\* address it read from: in automatic mode byte 0 with bit 0x20 cleared and
\* its other bits kept, then 10 80 10 80; in manual mode byte 0 with bit 0x20
\* set and its other bits kept, then bytes 1..4 as read.
C11_ModeBytes ==
  codec.op = "set_mode" =>
    LET nx == codec.st.next
        d == codec.data
        has20 == (d[1] \div 32) % 2 = 1
    IN  /\ nx.do = "tx"
        /\ nx.kind = "write"
        /\ nx.address = 4352 + (codec.pos - 1) * 16 + 3
        /\ Len(nx.payload) = 5
        /\ IF codec.auto
             THEN /\ nx.payload[1] = IF has20 THEN d[1] - 32 ELSE d[1]
                  /\ <<nx.payload[2], nx.payload[3], nx.payload[4], nx.payload[5]>>
                       = <<16, 128, 16, 128>>
             ELSE /\ nx.payload[1] = IF has20 THEN d[1] ELSE d[1] + 32
                  /\ \A k \in 2..5 : nx.payload[k] = d[k]

\* C11 witness: set_mode with auto true is applied to a read whose byte 0 is
\* FF and whose bytes 1..4 differ from 10 80 10 80; it writes DF 10 80 10 80.
C11_Witness ==
  /\ codec.op = "set_mode"
  /\ codec.auto
  /\ codec.data = <<255, 49, 72, 49, 80, 7>>
  /\ codec.st.next.payload = <<223, 16, 128, 16, 128>>

\* the date and quarter hour a time-of-year stamp stands for
StampTime(stamp, leap) ==
  [month |-> stamp \div 4096, day |-> (stamp % 4096) \div 128,
   hour |-> (stamp % 128) \div 4, minute |-> (stamp % 4) * 15, leap |-> leap]

\* C12: from any byte read, level in 0..31, time and duration,
\* set_temporary_temperature goes on to write 5 bytes to its slot's mode
\* address: byte 0 is the top 2 bits of the byte read plus the level (bit
\* 0x20 clear), bytes 1..2 the stamp of now, bytes 3..4 the stamp of the
\* quarter hour that holds now + duration + 1 minutes, both big-endian.
C12_TempBytes ==
  codec.op = "set_temporary_temperature" =>
    LET nx == codec.st.next
        b == nx.payload
        now == codec.now
        startStamp == b[2] * 256 + b[3]
        endStamp == b[4] * 256 + b[5]
        total == ToMinutes(now) + codec.duration + 1
        over == total >= YearMinutes(now.leap)
        endMin == IF over THEN total - YearMinutes(now.leap) ELSE total
        e == StampTime(endStamp, IF over THEN FALSE ELSE now.leap)
    IN  /\ nx.do = "tx"
        /\ nx.kind = "write"
        /\ nx.address = 4352 + (codec.pos - 1) * 16 + 3
        /\ Len(b) = 5
        /\ \A k \in 1..5 : b[k] \in Byte
        /\ b[1] \div 64 = codec.existing \div 64
        /\ b[1] % 32 = codec.temp
        /\ (b[1] \div 32) % 2 = 0
        /\ startStamp = now.month * 4096 + now.day * 128 + now.hour * 4
                          + (now.minute \div 15)
        /\ e.month \in 1..12
        /\ e.day \in 1..MonthLen(e.month, e.leap)
        /\ e.hour \in 0..23
        /\ ToMinutes(e) = (endMin \div 15) * 15

\* C12 witness: with FF read, level 5 and 120 minutes asked for on
\* December 31 at 22:45, the call writes C5, the stamp of December 31 22:45
\* and the stamp of January 1 00:45.
C12_Witness ==
  /\ codec.op = "set_temporary_temperature"
  /\ codec.existing = 255
  /\ codec.temp = 5
  /\ codec.duration = 120
  /\ codec.now.month = 12
  /\ codec.st.next.payload = <<197, 207, 219, 16, 131>>

\* C13: for a slot of any shift and step and a temperature that is a
\* multiple of step within (1 + shift) * step .. (30 + shift) * step, the
\* level set_temporary_temperature computes is temperature / step - shift,
\* untouched by the 5-bit mask, and the read formula (raw + shift) * step
\* gives the temperature back.
C13_LevelRoundTrip ==
  codec.op = "level" =>
    LET shift == codec.position.shift
        step == codec.position.step
        t == codec.temperature
    IN  (/\ t % step = 0
         /\ (1 + shift) * step <= t
         /\ t <= (30 + shift) * step)
          => /\ codec.temp \in 1..30
             /\ codec.temp * step = t - shift * step
             /\ codec.back = t

\* C13 witness: shift -32, step 4 and temperature -124, the lowest in range:
\* level 1, decoded back to -124.
C13_Witness ==
  /\ codec.op = "level"
  /\ codec.position.shift = 0 - 32
  /\ codec.position.step = 4
  /\ codec.temperature = 0 - 124
  /\ codec.temp = 1
  /\ codec.back = 0 - 124

\* C14: for every config byte 2, with r its low 6 bits, the decoded shift is
\* r for r < 32 and r - 64 otherwise (0 -> 0, 32 -> -32, 63 -> -1), always in
\* -32..31, and the decoded step is the top 2 bits plus 1.
C14_ShiftStep ==
  codec.op = "read_params" =>
    LET b2 == codec.params[3]
        r == b2 % 64
        e == codec.entry
    IN  /\ e.shift = IF r < 32 THEN r ELSE r - 64
        /\ e.shift \in (0 - 32)..31
        /\ r = 0 => e.shift = 0
        /\ r = 32 => e.shift = 0 - 32
        /\ r = 63 => e.shift = 0 - 1
        /\ e.step = (b2 \div 64) + 1
        /\ e.step \in 1..4

\* C14 witness: byte 2 = E0 (top bits 3, low bits 32) of a used slot decodes
\* to shift -32 and step 4.
C14_Witness ==
  /\ codec.op = "read_params"
  /\ codec.params = <<1, 0, 224, 0>>
  /\ codec.entry.used
  /\ codec.entry.shift = 0 - 32
  /\ codec.entry.step = 4

\* C15 (as claimed): every flag get_required_temperatures reports is one of
\* the modes 0..4.
C15_FlagDefined ==
  (/\ evCall.t # 0
   /\ evCall.call.name = "get_required_temperatures"
   /\ ~evCall.value.isNone)
    => \A p \in DOMAIN evCall.value.val : evCall.value.val[p].flag \in 0..4

\* C16: a transaction looks at the connection once, when it has the lock
\* and before its first attempt: it issues no connect when the client is
\* connected and exactly one when it is not, whatever happened to the
\* transactions before it.
C16_ConnectCheck ==
  /\ \A t \in Tasks :
       /\ pc[t] = "connect" =>
            /\ lockHolder = t
            /\ ~connected
            /\ ~tx[t].conn0
            /\ tx[t].nconn = 0
            /\ tx[t].i = 0
            /\ tx[t].hist = <<>>
       /\ pc[t] \in {"attempt", "sleep"} =>
            /\ lockHolder = t
            /\ tx[t].nconn = IF tx[t].conn0 THEN 0 ELSE 1
  /\ evTx.t # 0 => evTx.nconn = IF evTx.conn0 THEN 0 ELSE 1

\* C16 witness: a transaction that made a connect returns, in a call whose
\* transaction before it ended in error.
C16_Witness ==
  \E t \in Tasks :
    /\ evTx.t = t
    /\ evTx.nconn = 1
    /\ Len(txlog[t]) >= 2
    /\ txlog[t][Len(txlog[t]) - 1].resp.err

\* the bulk reads among the transactions of a call, by their place in it
BulkReads(log) ==
  {k \in 1..Len(log) : log[k].kind = "read" /\ log[k].address \in {96, 112}}

\* C17 (as claimed): a temperature read that starts with an empty cache
\* makes the reads of the population pass first and its one bulk read after
\* them.
C17_PopulateFirst ==
  (/\ evCall.t # 0
   /\ evCall.call.name \in {"get_current_temperatures", "get_required_temperatures"}
   /\ ~evCall.cached)
    => /\ BulkReads(evCall.log) = {Len(evCall.log)}
       /\ Len(evCall.log) > 1

\* C18 (as claimed): when the name read of a used slot ends in error, the
\* pass takes the empty name because of that error, records the slot as
\* used with the shift and step of its config payload and an empty name,
\* and goes on to the config read of the next slot.
C18_NameReadError ==
  \A p \in Slots :
    (evTx.t # 0 /\ evTx.address = NameAddr(p) /\ evTx.resp.err) =>
      LET t == evTx.t
          done == evPass.t # 0
          log == IF done THEN evPass.log ELSE txlog[t]
          cfg == log[Len(log) - 1]
          entry == IF done THEN evPass.res[p] ELSE rp[t].res[p]
          r == cfg.resp.registers[3] % 64
      IN  /\ cfg.address = 4352 + (p - 1) * 16
          /\ ~cfg.resp.err
          /\ entry.used
          /\ entry.name = <<>>
          /\ entry.shift = IF r < 32 THEN r ELSE r - 64
          /\ entry.step = (cfg.resp.registers[3] \div 64) + 1
          /\ evTx.name_from = "empty"
          /\ IF p < NumSlots
               THEN pc[t] # "idle" /\ tx[t].address = 4352 + p * 16 /\ cont[t] = "rp_cfg"
               ELSE done

\* the 5 registers at 0x1100 + (pos-1)*0x10 + 0x03 .. + 0x07
ModeRegs(pos) == (4352 + (pos - 1) * 16 + 3)..(4352 + (pos - 1) * 16 + 7)

\* C20: a register changes in a step of this process only if the step is
\* the write attempt of a set_mode or set_temporary_temperature call and the
\* register is one of the 5 mode registers of the call's slot; so reads
\* write nothing, and other slots, name and temperature blocks, the sixth
\* mode register and the slot's config registers at +0 .. +2 stay as they
\* are.
C20_Frame ==
  [][nenv' = nenv =>
       \A a \in Addrs :
         dev'[a] # dev[a] =>
           \E t \in Tasks :
             /\ pc[t] = "attempt"
             /\ tx[t].kind = "write"
             /\ call[t].name \in {"set_mode", "set_temporary_temperature"}
             /\ a \in ModeRegs(call[t].pos)]_vars

\* C20 witness: a set_mode call on slot 3 has written, the mode registers of
\* slot 3 differ from what the device started with, and every other register
\* is as it was.
C20_Witness ==
  /\ evCall.t # 0
  /\ evCall.call.name = "set_mode"
  /\ evCall.call.pos = 3
  /\ evCall.value = TRUE
  /\ \E a \in ModeRegs(3) : dev[a] # DeviceInit[a]
  /\ \A a \in Addrs \ ModeRegs(3) : dev[a] = DeviceInit[a]

\* no task is inside a facade call and the lock is free
Quiet == lockHolder = 0 /\ waiters = <<>> /\ \A t \in Tasks : pc[t] = "idle"

\* C19: whether or not the device can be reached, whenever a task is in a
\* transaction, waits for the lock or is otherwise inside a facade call, a
\* state follows in which every call has returned and the lock is free.
C19_Terminates == (~Quiet) ~> Quiet

\* C19 witness: with the device out of reach, a task sleeps after the last
\* failed attempt of its transaction while another task waits for the lock.
C19_Witness ==
  \E t, u \in Tasks :
    /\ ~link
    /\ pc[t] = "sleep"
    /\ tx[t].i = 9
    /\ pc[u] = "lock"

====
